---- MODULE Spec2Model ----
(***************************************************************************)
(* Model of the portfolio-selection core of py-quant-fin.                  *)
(*                                                                         *)
(* Real-valued weights are fixed-point integers in units of 1e-7, so 1.0   *)
(* is One and the 1e-4 tolerance of the source is Tol.  Sums are exact.    *)
(* None and the empty string are the falsy strings "None" and "".          *)
(* A holdings dict is a function from keys (ticker strings and Cash) to    *)
(* weights; the empty function stands for both None and {}.                *)
(***************************************************************************)
EXTENDS Integers, Sequences, FiniteSets, TLC

VARIABLES univ, model, solves, last, ptf, objective, problem, frames, heap

vars == <<univ, model, solves, last, ptf, objective, problem, frames, heap>>

----------------------------------------------------------------------------
(* Units, bounds and input alphabets                                       *)

Tol == 1000

One == 10000 * Tol

MaxSolves == 2

NumObs == 2

Tickers == {"AAPL", "GOOG"}

\* the Python objects a caller has made: Asset and Cash instances (an object
\* is known by its position in objects), the asset set and the holdings
\* dict it fills, the constraint sets it has built and the models it holds
NoHeap == [objects |-> <<>>, assets |-> {}, holdings |-> <<>>,
           sets |-> <<>>, models |-> <<>>]

\* the holdings key Cash(currency=EUR): equal and hashed by currency
Cash == "Cash(EUR)"

EmptyMap == [k \in {} |-> 0]

Abs(v) == IF v < 0 THEN 0 - v ELSE v

Min(a, b) == IF a < b THEN a ELSE b

Falsy(s) == s \in {"None", ""}

RECURSIVE SumOver(_, _)
SumOver(f, S) ==
  IF S = {} THEN 0
  ELSE LET k == CHOOSE e \in S : TRUE IN f[k] + SumOver(f, S \ {k})

SumValues(h) == SumOver(h, DOMAIN h)

RECURSIVE SumSeq(_)
SumSeq(s) == IF s = <<>> THEN 0 ELSE Head(s) + SumSeq(Tail(s))

Range(s) == {s[i] : i \in DOMAIN s}

Orderings(S) ==
  {s \in [1..Cardinality(S) -> S] : \A i, j \in 1..Cardinality(S) : s[i] = s[j] => i = j}

OrderedSubsets(S) == UNION {Orderings(T) : T \in SUBSET S}

----------------------------------------------------------------------------
(* quantfin/portfolio_selection/portfolio.py                               *)

\* mutant of SynthCash: the clamp of lines 34-35 is left out
SynthCashNoClamp(total) == One - Abs(total)

\* lines 33-35: the Cash weight computed when Cash is not among the holdings
SynthCash(total) ==
  LET cash == One - Abs(total)
  IN IF cash < Tol THEN 0 ELSE cash

\* lines 36-38: the condition of the closing assert
HoldingsAssertion(h) == SumValues(h) - One < Tol

\* Portfolio.__init__: the holdings after construction, or AssertionError
Portfolio__init__(holdings) ==
  LET h0 == IF DOMAIN holdings = {} THEN (Cash :> One) ELSE holdings
      h1 == IF Cash \in DOMAIN h0 THEN h0
            ELSE h0 @@ (Cash :> SynthCash(SumValues(h0)))
  IN IF HoldingsAssertion(h1)
     THEN [outcome |-> "ok", holdings |-> h1]
     ELSE [outcome |-> "AssertionError", holdings |-> EmptyMap]

\* OptimalPortfolio.__init__ (lines 176-188): super().__init__ with the same
\* holdings.  compute_optimal_portfolio passes the keyword
\* optimization_model_name, which the revision of this constructor under
\* src/ does not declare; the constructor is taken to accept the provenance
\* keyword of its caller, as the data model of the specification describes.
OptimalPortfolio__init__(holdings) == Portfolio__init__(holdings)

\* weights offered to an explicit holdings map
HoldingWeights ==
  {0 - 5000 * Tol, 0 - 1, 0, Tol - 1, 2000 * Tol, 3000 * Tol, 6000 * Tol,
   One - Tol + 1, One, One + Tol, One + Tol + 1, 15000 * Tol}

HoldingKeys == Tickers \cup {Cash}

HoldingsInputs == UNION {[K -> HoldingWeights] : K \in SUBSET HoldingKeys}

NoPortfolio == [state |-> "none", input |-> EmptyMap, outcome |-> "none", holdings |-> EmptyMap]

\* a caller constructs Portfolio(holdings=ptf.input)
PortfolioNew ==
  /\ ptf.state = "input"
  /\ LET r == Portfolio__init__(ptf.input)
     IN ptf' = [state |-> "attempted", input |-> ptf.input,
                outcome |-> r.outcome, holdings |-> r.holdings]
  /\ UNCHANGED <<univ, model, solves, last, objective, problem, frames, heap>>

----------------------------------------------------------------------------
(* quantfin/market/investment_universe.py                                  *)

NoUniverse ==
  [exists |-> FALSE, reference_index |-> "None",
   tickers |-> [none |-> TRUE, set |-> {}],
   assets |-> [none |-> TRUE, set |-> {}],
   retcols |-> <<>>]

\* mutant of MarketIndexList: the member names instead of the member values
MarketIndexNames == {"SP500", "NASDAQ100"}

\* MarketIndex.list(): the values of the enumeration
MarketIndexList == {"S&P 500", "NASDAQ 100"}

\* source/market/investment_universe.py: VALID_UNIVERSE_NAMES
VALID_UNIVERSE_NAMES == {"SP500", "NASDAQ100"}

NameInputs == {"None", "FTSE100"}

ReferenceIndexInputs == {"None", "", "S&P 500", "NASDAQ 100", "FTSE100", "SP500"}

TickersInputs ==
  {[none |-> TRUE, set |-> {}]} \cup {[none |-> FALSE, set |-> T] : T \in SUBSET Tickers}

\* what a DataFrame-valued constructor argument can be
FrameInputs == {"None", "DataFrame"}

\* the ticker lists the index pages can deliver
FetchedTickers == (SUBSET Tickers) \ {{}}

\* pd.DataFrame(): no columns and no rows
EmptyFrame == [columns |-> <<>>, index |-> 0, cell |-> <<>>]

\* the _bars, _prices and _returns a universe starts with (lines 98-100)
NoFrames == [bars |-> EmptyFrame, prices |-> EmptyFrame, returns |-> EmptyFrame]

NoLast == [op |-> "none", outcome |-> "none", arg |-> "None", arg2 |-> "None", net |-> 0]

\* InvestmentUniverse.__init__ (lines 73-100): the assert on reference_index,
\* then the attribute assignments; `returns or pd.DataFrame()` evaluates the
\* truth value of a DataFrame argument, which pandas refuses with ValueError.
\* self.name is stored and never read again, so the state does not keep it.
InvestmentUniverse__init__(name, reference_index, tickers, returns) ==
  IF ~Falsy(reference_index) /\ reference_index \notin MarketIndexList
  THEN [outcome |-> "AssertionError", univ |-> NoUniverse]
  ELSE IF returns = "DataFrame"
  THEN [outcome |-> "ValueError", univ |-> NoUniverse]
  ELSE [outcome |-> "ok",
        univ |-> [exists |-> TRUE, reference_index |-> reference_index,
                  tickers |-> tickers,
                  assets |-> [none |-> TRUE, set |-> {}],
                  retcols |-> <<>>]]

\* a caller constructs InvestmentUniverse(name, reference_index, tickers, returns=...)
UniverseNew(name, reference_index, tickers, returns) ==
  /\ ~univ.exists
  /\ LET r == InvestmentUniverse__init__(name, reference_index, tickers, returns)
     IN /\ univ' = r.univ
        /\ last' = [op |-> "InvestmentUniverse", outcome |-> r.outcome,
                    arg |-> name, arg2 |-> reference_index, net |-> 0]
  /\ UNCHANGED <<model, solves, ptf, objective, problem, frames, heap>>

\* source/market/investment_universe.py, InvestmentUniverse.__init__ (lines 15-25)
SourceInvestmentUniverse__init__(name) ==
  IF name \in VALID_UNIVERSE_NAMES THEN "ok" ELSE "ValueError"

\* a caller constructs the source.market InvestmentUniverse(name)
SourceUniverseNew(name) ==
  /\ ~univ.exists
  /\ last' = [op |-> "source.InvestmentUniverse",
              outcome |-> SourceInvestmentUniverse__init__(name),
              arg |-> name, arg2 |-> "None", net |-> 0]
  /\ UNCHANGED <<univ, model, solves, ptf, objective, problem, frames, heap>>

\* the message of the assertions of lines 112 and 153
ReferenceIndexFirst == "You must provide a reference_index first!"

\* mutant of get_tickers: line 112 left out, so that a universe without
\* tickers and reference index gets the empty set of line 113
get_tickers_unasserted(u, fetched) ==
  IF ~u.tickers.none
  THEN [outcome |-> "ok", msg |-> "", tickers |-> u.tickers, net |-> 0]
  ELSE IF u.reference_index \in MarketIndexList
  THEN [outcome |-> "ok", msg |-> "", tickers |-> [none |-> FALSE, set |-> fetched], net |-> 1]
  ELSE [outcome |-> "ok", msg |-> "", tickers |-> [none |-> FALSE, set |-> {}], net |-> 0]

\* InvestmentUniverse.get_tickers (lines 102-124); fetched is what the index
\* page delivers when it is read, net counts the pages read
get_tickers(u, fetched) ==
  IF ~u.tickers.none
  THEN [outcome |-> "ok", msg |-> "", tickers |-> u.tickers, net |-> 0]
  ELSE IF Falsy(u.reference_index)
  THEN [outcome |-> "AssertionError", msg |-> ReferenceIndexFirst,
        tickers |-> u.tickers, net |-> 0]
  ELSE IF u.reference_index \in MarketIndexList
  THEN [outcome |-> "ok", msg |-> "", tickers |-> [none |-> FALSE, set |-> fetched], net |-> 1]
  ELSE [outcome |-> "ok", msg |-> "", tickers |-> [none |-> FALSE, set |-> {}], net |-> 0]

\* InvestmentUniverse.get_assets (lines 136-167): one Stock per ticker when
\* there are tickers, else the assets of the reference index
get_assets(u, fetched, fetched2) ==
  LET t == get_tickers(u, fetched)
      u1 == [u EXCEPT !.tickers = t.tickers]
  IN IF t.outcome # "ok"
     THEN [outcome |-> t.outcome, msg |-> t.msg, univ |-> u, assets |-> {}, net |-> t.net]
     ELSE IF t.tickers.set # {}
     THEN [outcome |-> "ok", msg |-> "",
           univ |-> [u1 EXCEPT !.assets = [none |-> FALSE, set |-> t.tickers.set]],
           assets |-> t.tickers.set, net |-> t.net]
     ELSE IF u1.assets.none
     THEN IF Falsy(u1.reference_index)
          THEN [outcome |-> "AssertionError", msg |-> ReferenceIndexFirst,
                univ |-> u1, assets |-> {}, net |-> t.net]
          ELSE IF u1.reference_index \in MarketIndexList
          THEN [outcome |-> "ok", msg |-> "",
                univ |-> [u1 EXCEPT !.assets = [none |-> FALSE, set |-> fetched2]],
                assets |-> fetched2, net |-> t.net + 1]
          ELSE [outcome |-> "ok", msg |-> "",
                univ |-> [u1 EXCEPT !.assets = [none |-> FALSE, set |-> {}]],
                assets |-> {}, net |-> t.net]
     ELSE [outcome |-> "ok", msg |-> "", univ |-> u1, assets |-> u1.assets.set, net |-> t.net]

\* InvestmentUniverse.set_returns (lines 296-300) with a non-empty DataFrame
\* whose columns are cols
set_returns(cols) ==
  /\ univ.exists
  /\ cols # <<>>
  /\ univ.retcols = <<>>
  /\ univ' = [univ EXCEPT !.retcols = cols]
  /\ last' = [op |-> "set_returns", outcome |-> "ok", arg |-> "None", arg2 |-> "None", net |-> 0]
  /\ UNCHANGED <<model, solves, ptf, objective, problem, frames, heap>>

\* num_ret_assets (lines 308-310)
num_ret_assets(u) == Len(u.retcols)

----------------------------------------------------------------------------
(* quantfin/portfolio_selection/portfolio_optimization.py                  *)

NoModel == [exists |-> FALSE, cls |-> "None", constraints |-> [none |-> TRUE, set |-> {}]]

\* class Constraint (lines 25-29)
Constraint == {"NO_SHORTSELLING", "MAX_INSTR_WEIGHT"}

ModelClasses == {"MeanVariance", "MeanMAD", "MeanCVaR"}

ConstraintsInputs ==
  {[none |-> TRUE, set |-> {}]} \cup {[none |-> FALSE, set |-> C] : C \in SUBSET Constraint}

\* OptimizationModel.__init__ (lines 42-51), every member being a Constraint
OptimizationModel__init__(cls, constraints) ==
  [exists |-> TRUE, cls |-> cls, constraints |-> constraints]

\* a caller constructs cls(constraints=constraints); the module and the
\* package of the same import name are not loaded together
ModelNew(cls, constraints) ==
  /\ ~model.exists
  /\ solves = <<>>
  /\ model' = OptimizationModel__init__(cls, constraints)
  /\ last' = [op |-> "OptimizationModel", outcome |-> "ok", arg |-> cls, arg2 |-> "None", net |-> 0]
  /\ UNCHANGED <<univ, solves, ptf, objective, problem, frames, heap>>

\* `if self.constraints:` - neither None nor empty
ConstraintsTruthy(constraints) == ~constraints.none /\ constraints.set # {}

\* lines 172-175 negated: NO_SHORTSELLING is among the constraints
HasNoShortselling(constraints) ==
  ~constraints.none /\ "NO_SHORTSELLING" \in constraints.set

\* an argument that is no member of Constraint, e.g. the plain string
\* "No short-selling"
NotAConstraint == "str"

ConstraintArgs == Constraint \cup {NotAConstraint}

\* the sets a caller passes as the constraints argument
ConstraintSetArgs == {{}, {"NO_SHORTSELLING"}, {"NO_SHORTSELLING", NotAConstraint}}

\* isinstance(constraint, Constraint)
IsConstraint(c) == c \in Constraint

\* mutant of add_constraint: the isinstance check of lines 60-61 left out
add_constraint_unchecked(constraints, c) ==
  [outcome |-> "ok",
   constraints |-> [none |-> FALSE,
                    set |-> (IF constraints.none THEN {} ELSE constraints.set) \cup {c}]]

\* OptimizationModel.add_constraint (lines 53-64) on the value of
\* self.constraints
add_constraint(constraints, c) ==
  IF ~IsConstraint(c)
  THEN [outcome |-> "ValueError", constraints |-> constraints]
  ELSE [outcome |-> "ok",
        constraints |-> [none |-> FALSE,
                         set |-> (IF constraints.none THEN {} ELSE constraints.set) \cup {c}]]

\* OptimizationModel.del_constraint (lines 66-79) on the value of
\* self.constraints
del_constraint(constraints, c) ==
  IF ~ConstraintsTruthy(constraints)
  THEN [outcome |-> "AssertionError", constraints |-> constraints]
  ELSE IF ~IsConstraint(c)
  THEN [outcome |-> "ValueError", constraints |-> constraints]
  ELSE IF c \notin constraints.set
  THEN [outcome |-> "AssertionError", constraints |-> constraints]
  ELSE [outcome |-> "ok", constraints |-> [none |-> FALSE, set |-> constraints.set \ {c}]]

\* a caller runs model.add_constraint(c) before the problem is solved
ModelAddConstraint(c) ==
  /\ model.exists
  /\ solves = <<>>
  /\ LET r == add_constraint(model.constraints, c)
     IN /\ model' = [model EXCEPT !.constraints = r.constraints]
        /\ last' = [op |-> "add_constraint", outcome |-> r.outcome, arg |-> c,
                    arg2 |-> "None", net |-> 0]
  /\ UNCHANGED <<univ, solves, ptf, objective, problem, frames, heap>>

\* whether _compute_objective returns a "Quadratic" entry (lines 240-243,
\* 286-288, 381-391)
HasQuadratic(cls) == cls = "MeanVariance"

\* whether _compute_constraints returns a "G_inequality" entry (lines 119-141,
\* 257-261, 329-354, 424-446)
HasGInequality(cls, constraints) ==
  IF ConstraintsTruthy(constraints)
  THEN "NO_SHORTSELLING" \in constraints.set
  ELSE cls \in {"MeanMAD", "MeanCVaR"}

\* the rounding of an interior-point solution, in units of 1e-7
SolverNoise == {0 - 1, 0, 1}

AssetWeights ==
  {0 - 1, 0, Tol - 1, Tol, 3000 * Tol, 7000 * Tol, One - Tol, One - Tol + 1, One, One + 1}

\* asset weights a solver can report for G x <= h, A x = b with G = -I,
\* h = 0, A = 1, b = 1: the budget met, the bounds met up to SolverNoise
Solutions(n) ==
  {x \in [1..n -> AssetWeights] :
     /\ SumSeq(x) = One
     /\ \A i \in 1..n : x[i] >= 0 \/ x[i] \in SolverNoise}

\* what a call of cvxopt.solvers.qp / lp can do: return a solution with a
\* status, or raise ValueError
SolverAnswers(n) ==
  {[status |-> st, x |-> x] : st \in {"optimal", "unknown"}, x \in Solutions(n)}
    \cup {[status |-> "ValueError", x |-> <<>>]}

\* mutant of SnapWeight: the bound 1e-4 is included
SnapWeightInclusive(w) == IF w > 0 /\ w <= Tol THEN 0 ELSE w

\* lines 223-225
SnapWeight(w) == IF w > 0 /\ w < Tol THEN 0 ELSE w

\* lines 218-221: dict(zip(stocks, weights)), stocks in the iteration order
\* of the asset set; the Stock keys hash by identity, so no two collide
ZipHoldings(order, weights) ==
  LET m == Min(Len(order), Len(weights))
  IN [k \in {order[i] : i \in 1..m} |->
        weights[CHOOSE i \in 1..m : order[i] = k]]

\* line 227: f"{self.__class__.__name__} Portfolio"
PortfolioName(cls) == cls \o " Portfolio"

NoEntry(variant, input, answer) ==
  [variant |-> variant, input |-> input, status |-> answer.status, x |-> answer.x,
   order |-> <<>>, outcome |-> "none", holdings |-> EmptyMap, calls |-> 0, net |-> 0,
   name |-> "None", optimization_model_name |-> "None", assets_returns |-> <<>>]

\* OptimizationModel.compute_optimal_portfolio (lines 144-231) for model m and
\* universe u whose returns are materialized; answer is what the solver does,
\* order the iteration order of the asset set.  lp() requires G and h, so the
\* call of lines 186-190 raises TypeError.
compute_optimal_portfolio(m, u, input, answer, a, order) ==
  LET n == num_ret_assets(u)
      ns == HasNoShortselling(m.constraints)
      q == HasQuadratic(m.cls)
      g == HasGInequality(m.cls, m.constraints)
      first == IF ns THEN 0 ELSE 1
      e == NoEntry("model", input, answer)
  IN IF ~ns /\ ~q
     THEN [e EXCEPT !.outcome = "TypeError", !.status = "none", !.x = <<>>]
     ELSE IF ~g
     THEN [e EXCEPT !.outcome = "KeyError", !.status = "none", !.x = <<>>, !.calls = first]
     ELSE IF answer.status = "ValueError"
     THEN [e EXCEPT !.outcome = "ValueError", !.calls = first + 1]
     ELSE IF answer.status # "optimal"
     THEN [e EXCEPT !.outcome = "AssertionError", !.calls = first + 1]
     ELSE IF a.outcome # "ok"
     THEN [e EXCEPT !.outcome = a.outcome, !.calls = first + 1, !.net = a.net]
     ELSE LET weights == [i \in 1..n |-> answer.x[i]]
              zipped == ZipHoldings(order, weights)
              opt_holdings == [k \in DOMAIN zipped |-> SnapWeight(zipped[k])]
              p == OptimalPortfolio__init__(opt_holdings)
          IN IF p.outcome # "ok"
             THEN [e EXCEPT !.outcome = p.outcome, !.holdings = p.holdings,
                            !.order = order, !.calls = first + 1, !.net = a.net]
             ELSE [e EXCEPT !.outcome = p.outcome, !.holdings = p.holdings,
                            !.order = order, !.calls = first + 1, !.net = a.net,
                            !.name = PortfolioName(m.cls),
                            !.optimization_model_name = m.cls,
                            !.assets_returns = u.retcols]

\* a deterministic solver: the same problem gets the same answer
SameAnswerAsBefore(input, answer) ==
  \A i \in DOMAIN solves :
    (solves[i].input = input /\ solves[i].status # "none")
      => (answer.status = solves[i].status /\ answer.x = solves[i].x)

\* OptimizationProblem.solve (lines 464-468), the returns of the universe
\* being materialized already; cash_pct keeps its default 0
Solve ==
  /\ univ.exists /\ model.exists
  /\ univ.retcols # <<>>
  /\ Len(solves) < MaxSolves
  /\ \E answer \in SolverAnswers(num_ret_assets(univ)),
        fetched \in FetchedTickers, fetched2 \in FetchedTickers :
       LET input == [cls |-> model.cls, constraints |-> model.constraints,
                     retcols |-> univ.retcols]
           a == get_assets(univ, fetched, fetched2)
       IN /\ SameAnswerAsBefore(input, answer)
          /\ \E order \in Orderings(a.assets) :
               LET e == compute_optimal_portfolio(model, univ, input, answer, a, order)
               IN /\ solves' = Append(solves, e)
                  /\ univ' = IF e.status = "optimal" THEN a.univ ELSE univ
                  /\ last' = [op |-> "solve", outcome |-> e.outcome,
                              arg |-> "None", arg2 |-> "None", net |-> e.net]
  /\ UNCHANGED <<model, ptf, objective, problem, frames, heap>>

----------------------------------------------------------------------------
(* quantfin/portfolio_selection/portfolio_optimization/optimization_problem.py *)

\* line 84: weights[weights < 1e-4] = 0.0
PkgSnapWeight(w) == IF w < Tol THEN 0 ELSE w

\* MeanVariance.solve (lines 69-93) on a returns frame with columns cols
MeanVariance_solve(cols, input, answer) ==
  LET n == Len(cols)
      e == NoEntry("package", input, answer)
  IN IF answer.status = "ValueError"
     THEN [e EXCEPT !.outcome = "ValueError", !.calls = 1]
     ELSE LET weights == [i \in 1..n |-> PkgSnapWeight(answer.x[i])]
              p == OptimalPortfolio__init__(ZipHoldings(cols, weights))
          IN IF p.outcome # "ok"
             THEN [e EXCEPT !.outcome = p.outcome, !.holdings = p.holdings,
                            !.order = cols, !.calls = 1]
             ELSE [e EXCEPT !.outcome = p.outcome, !.holdings = p.holdings,
                            !.order = cols, !.calls = 1,
                            !.name = "Min Variance Portfolio"]

\* a caller runs the package's OptimizationProblem(returns, VARIANCE, ...).solve()
\* (lines 165-167) on the returns of the universe
PackageSolve ==
  /\ univ.exists
  /\ ~model.exists
  /\ univ.retcols # <<>>
  /\ Len(solves) < MaxSolves
  /\ \E answer \in SolverAnswers(Len(univ.retcols)) :
       LET input == [cls |-> "package.MeanVariance",
                     constraints |-> [none |-> TRUE, set |-> {}],
                     retcols |-> univ.retcols]
       IN /\ SameAnswerAsBefore(input, answer)
          /\ LET e == MeanVariance_solve(univ.retcols, input, answer)
             IN /\ solves' = Append(solves, e)
                /\ last' = [op |-> "package.solve", outcome |-> e.outcome,
                            arg |-> "None", arg2 |-> "None", net |-> 0]
  /\ UNCHANGED <<univ, model, ptf, objective, problem, frames, heap>>

----------------------------------------------------------------------------
(* quantfin/portfolio_selection/portfolio_optimization/objective_functions.py *)
(* and MeanVariance._compute_objective                                       *)

\* the sample returns offered as a returns frame, NumObs rows by Tickers
RetVals == {0 - 1, 0, 1}

ReturnsInputs == [1..NumObs -> [Tickers -> RetVals]]

\* a computed covariance entry is its exact value at resolution
\* CovResolution plus a rounding error of at most one unit
CovResolution == 4

RoundingErrors == {0 - 1, 0, 1}

\* a variance is a sum of squares and is not rounded below its exact value
\* here; the covariances of two columns are rounded alike
RoundingInputs ==
  {e \in [Tickers -> [Tickers -> RoundingErrors]] :
     \A a, b \in Tickers : e[a][b] = e[b][a] /\ e[a][a] = 0}

RECURSIVE SumRows(_, _)
SumRows(f, t) == IF t = 0 THEN 0 ELSE f[t] + SumRows(f, t - 1)

\* returns.cov(): the sample covariance (ddof = 1) of columns a and b,
\* scaled by NumObs * (NumObs - 1) to stay integral
ExactCov(R, a, b) ==
  NumObs * SumRows([t \in 1..NumObs |-> R[t][a] * R[t][b]], NumObs)
    - SumRows([t \in 1..NumObs |-> R[t][a]], NumObs)
        * SumRows([t \in 1..NumObs |-> R[t][b]], NumObs)

\* returns.cov().values as computed in floating point: an entry that is
\* exactly zero is computed exactly, any other is rounded
Cov(R, err) ==
  [a \in Tickers |-> [b \in Tickers |->
     CovResolution * ExactCov(R, a, b)
       + (IF ExactCov(R, a, b) = 0 THEN 0 ELSE err[a][b])]]

\* a symmetric matrix over at most two columns is positive semidefinite iff
\* its principal minors are non-negative
IsPositiveSemidefinite(M) ==
  /\ \A a \in DOMAIN M : M[a][a] >= 0
  /\ \A a, b \in DOMAIN M : a # b => M[a][a] * M[b][b] - M[a][b] * M[b][a] >= 0

Twice(M) == [a \in DOMAIN M |-> [b \in DOMAIN M |-> 2 * M[a][b]]]

NoMatrix == [a \in {} |-> 0]

\* objective_functions.py line 67: `if self._is_positive_semidefinite:` tests
\* the bound method object, which is true, without calling it
IsPositiveSemidefiniteAttribute == TRUE

\* CovarianceMatrix.__call__ (lines 65-70)
CovarianceMatrix__call__(cov) ==
  IF IsPositiveSemidefiniteAttribute
  THEN [outcome |-> "ok", Quadratic |-> Twice(cov)]
  ELSE [outcome |-> "ValueError", Quadratic |-> NoMatrix]

\* MeanVariance._compute_objective (portfolio_optimization.py lines 237-243)
MeanVariance__compute_objective(cov) ==
  [outcome |-> "ok", Quadratic |-> Twice(cov)]

\* no objective or constraint matrices are being built
NoProblem == [state |-> "none"]

NoObjective ==
  [state |-> "none", op |-> "none", returns |-> <<>>, cov |-> NoMatrix,
   outcome |-> "none", Quadratic |-> NoMatrix]

\* a caller evaluates CovarianceMatrix(returns)()
CovarianceMatrixCall ==
  /\ objective.state = "input"
  /\ LET r == CovarianceMatrix__call__(objective.cov)
     IN objective' = [objective EXCEPT !.state = "built", !.op = "CovarianceMatrix",
                                       !.outcome = r.outcome, !.Quadratic = r.Quadratic]
  /\ UNCHANGED <<univ, model, solves, last, ptf, problem, frames, heap>>

\* a MeanVariance model builds its objective for the returns
MeanVarianceObjective ==
  /\ objective.state = "input"
  /\ LET r == MeanVariance__compute_objective(objective.cov)
     IN objective' = [objective EXCEPT !.state = "built", !.op = "MeanVariance",
                                       !.outcome = r.outcome, !.Quadratic = r.Quadratic]
  /\ UNCHANGED <<univ, model, solves, last, ptf, problem, frames, heap>>

InitObjective ==
  /\ univ = NoUniverse
  /\ model = NoModel
  /\ solves = <<>>
  /\ last = NoLast
  /\ ptf = NoPortfolio
  /\ \E R \in ReturnsInputs, err \in RoundingInputs :
       objective = [NoObjective EXCEPT !.state = "input", !.returns = R, !.cov = Cov(R, err)]
  /\ problem = NoProblem
  /\ frames = NoFrames
  /\ heap = NoHeap

NextObjective == CovarianceMatrixCall \/ MeanVarianceObjective

SpecObjective == InitObjective /\ [][NextObjective]_vars

----------------------------------------------------------------------------
(* Objective and constraint matrices                                       *)
(* portfolio_optimization.py and the portfolio_optimization package        *)

\* a returns frame of T rows (observations) by n columns (assets), as the
\* sequence of its rows
ReturnsFrames ==
  UNION {[1..T -> [1..n -> RetVals]] : T \in 1..NumObs, n \in 1..Cardinality(Tickers)}

\* num_obs_returns (investment_universe.py lines 316-318)
num_obs_returns(R) == Len(R)

\* len(returns.columns) of a frame
num_columns(R) == Len(R[1])

\* np.zeros(k), np.ones(k) and the i-th row of v * np.eye(k)
Zeros(k) == [i \in 1..k |-> 0]

Ones(k) == [i \in 1..k |-> 1]

EyeRow(k, i, v) == [j \in 1..k |-> IF j = i THEN v ELSE 0]

Scaled(v, row) == [j \in 1..Len(row) |-> v * row[j]]

\* the default confidence_level of MeanCVaR is 0.05 = 1 / ConfidenceInv
ConfidenceInv == 20

\* the cash percentages offered to _compute_constraints
CashPctInputs == {0, 1000 * Tol}

\* 2 * returns.cov().values: n by n, entries scaled by T * (T - 1)
TwiceCovOfFrame(R) ==
  LET T == num_obs_returns(R)
      n == num_columns(R)
      col(i) == [t \in 1..T |-> R[t][i]]
      prod(i, j) == [t \in 1..T |-> R[t][i] * R[t][j]]
  IN [i \in 1..n |-> [j \in 1..n |->
        2 * (T * SumSeq(prod(i, j)) - SumSeq(col(i)) * SumSeq(col(j)))]]

\* _compute_objective of MeanVariance (lines 237-243), MeanMAD (lines 268-288)
\* and MeanCVaR (lines 369-391).  The Linear entries of MeanMAD and MeanCVaR
\* are in units of 1 / T: ones(t) / t is 1, 1 / (confidence_level * T) is
\* ConfidenceInv and zeta = 1.0 is T.  Only MeanVariance sets "Quadratic".
compute_objective(cls, R) ==
  LET T == num_obs_returns(R)
      n == num_columns(R)
  IN CASE cls = "MeanVariance" ->
            [Linear |-> Zeros(n), hasQuadratic |-> TRUE, Quadratic |-> TwiceCovOfFrame(R)]
       [] cls = "MeanMAD" ->
            [Linear |-> Zeros(n) \o Ones(T), hasQuadratic |-> FALSE, Quadratic |-> <<>>]
       [] cls = "MeanCVaR" ->
            [Linear |-> Zeros(n) \o Scaled(ConfidenceInv, Ones(T)) \o <<T>>,
             hasQuadratic |-> FALSE, Quadratic |-> <<>>]

\* OptimizationModel._compute_constraints (lines 96-142)
base_compute_constraints(cls, constraints, R, cash_pct) ==
  LET n == num_columns(R)
      width == Len(compute_objective(cls, R).Linear)
      ns == ConstraintsTruthy(constraints) /\ "NO_SHORTSELLING" \in constraints.set
  IN [A_budget |-> <<Ones(n) \o Zeros(width - n)>>,
      b_budget |-> <<One - cash_pct>>,
      hasG |-> ns,
      G_inequality |-> IF ns THEN [i \in 1..n |-> EyeRow(n, i, 0 - 1) \o Zeros(width - n)]
                       ELSE <<>>,
      h_inequality |-> IF ns THEN Zeros(n) ELSE <<>>]

\* MeanVariance._compute_constraints (lines 245-262)
MeanVariance_compute_constraints(constraints, R, cash_pct) ==
  LET n == num_columns(R)
      c == base_compute_constraints("MeanVariance", constraints, R, cash_pct)
      ns == ConstraintsTruthy(constraints) /\ "NO_SHORTSELLING" \in constraints.set
  IN [c EXCEPT !.A_budget = <<Ones(n)>>,
               !.G_inequality = IF ns THEN [i \in 1..n |-> EyeRow(n, i, 0 - 1)] ELSE @]

\* T * (returns - mean_mat), row t: the deviations from the column means
DeviationRow(R, t) ==
  LET T == num_obs_returns(R)
  IN [i \in 1..num_columns(R) |-> T * R[t][i] - SumSeq([s \in 1..T |-> R[s][i]])]

\* MeanMAD._compute_constraints (lines 290-355); the rows of mad_ge and
\* mad_le are multiplied by T, their right-hand side being 0.  The else of
\* line 346 belongs to `if self.constraints:`.
MeanMAD_compute_constraints(constraints, R, cash_pct) ==
  LET T == num_obs_returns(R)
      n == num_columns(R)
      c == base_compute_constraints("MeanMAD", constraints, R, cash_pct)
      mad_ge == [t \in 1..T |-> DeviationRow(R, t) \o EyeRow(T, t, 0 - T)]
      mad_le == [t \in 1..T |-> Scaled(0 - 1, DeviationRow(R, t)) \o EyeRow(T, t, 0 - T)]
      positive_abs_dev == [t \in 1..T |-> Zeros(n) \o EyeRow(T, t, 0 - 1)]
      h_mad == Zeros(3 * T)
  IN IF ConstraintsTruthy(constraints)
     THEN IF "NO_SHORTSELLING" \in constraints.set
          THEN [c EXCEPT !.G_inequality = mad_ge \o mad_le \o positive_abs_dev \o @,
                         !.h_inequality = h_mad \o @]
          ELSE c
     ELSE [c EXCEPT !.hasG = TRUE,
                    !.G_inequality = mad_ge \o mad_le \o positive_abs_dev,
                    !.h_inequality = h_mad]

\* mutant of MeanCVaR_compute_constraints: cvar_ge without the column of
\* the auxiliary variable zeta
MeanCVaR_compute_constraints_no_zeta(constraints, R, cash_pct) ==
  LET T == num_obs_returns(R)
      n == num_columns(R)
      c == base_compute_constraints("MeanCVaR", constraints, R, cash_pct)
      cvar_ge == [t \in 1..T |-> Scaled(0 - 1, R[t]) \o EyeRow(T, t, 0 - 1)]
      positive_dev_from_zeta == [t \in 1..T |-> Zeros(n) \o EyeRow(T, t, 0 - 1) \o <<0>>]
      h_cvar == Zeros(2 * T)
  IN IF ConstraintsTruthy(constraints)
     THEN IF "NO_SHORTSELLING" \in constraints.set
          THEN [c EXCEPT !.G_inequality = cvar_ge \o positive_dev_from_zeta \o @,
                         !.h_inequality = h_cvar \o @]
          ELSE c
     ELSE [c EXCEPT !.hasG = TRUE,
                    !.G_inequality = cvar_ge \o positive_dev_from_zeta,
                    !.h_inequality = h_cvar]

\* MeanCVaR._compute_constraints (lines 393-447)
MeanCVaR_compute_constraints(constraints, R, cash_pct) ==
  LET T == num_obs_returns(R)
      n == num_columns(R)
      c == base_compute_constraints("MeanCVaR", constraints, R, cash_pct)
      cvar_ge == [t \in 1..T |-> Scaled(0 - 1, R[t]) \o EyeRow(T, t, 0 - 1) \o <<0 - 1>>]
      positive_dev_from_zeta == [t \in 1..T |-> Zeros(n) \o EyeRow(T, t, 0 - 1) \o <<0>>]
      h_cvar == Zeros(2 * T)
  IN IF ConstraintsTruthy(constraints)
     THEN IF "NO_SHORTSELLING" \in constraints.set
          THEN [c EXCEPT !.G_inequality = cvar_ge \o positive_dev_from_zeta \o @,
                         !.h_inequality = h_cvar \o @]
          ELSE c
     ELSE [c EXCEPT !.hasG = TRUE,
                    !.G_inequality = cvar_ge \o positive_dev_from_zeta,
                    !.h_inequality = h_cvar]

\* self._compute_constraints of the model class
compute_constraints(cls, constraints, R, cash_pct) ==
  CASE cls = "MeanVariance" -> MeanVariance_compute_constraints(constraints, R, cash_pct)
    [] cls = "MeanMAD" -> MeanMAD_compute_constraints(constraints, R, cash_pct)
    [] cls = "MeanCVaR" -> MeanCVaR_compute_constraints(constraints, R, cash_pct)

\* objective_functions.py: LinearMAD.__call__ (lines 88-92), in units of 1 / T
LinearMAD__call__(R) == Zeros(num_columns(R)) \o Ones(num_obs_returns(R))

\* objective_functions.py: LinearCVaR.__call__ (lines 111-115), in units of 1 / T
LinearCVaR__call__(R) == Zeros(num_columns(R)) \o Ones(num_obs_returns(R))

\* constraints.py: Budget.__call__ (lines 40-64)
Budget__call__(num_assets, num_auxiliary_variables) ==
  [A |-> <<Ones(num_assets)>>, b |-> <<One>>]

\* constraints.py: NoShortSelling.__call__ (lines 73-96)
NoShortSelling__call__(num_assets, num_auxiliary_variables) ==
  [G |-> [i \in 1..num_assets |-> EyeRow(num_assets, i, 0 - 1)], h |-> Zeros(num_assets)]

\* the num_auxiliary_variables a caller can pass to a package constraint
AuxiliaryInputs == 0..(NumObs + 1)

\* a model class with its constraints, a returns frame and a cash
\* percentage, before any matrix is built
ProblemInput(cls, constraints, R, cash_pct) ==
  [state |-> "input", op |-> "none", cls |-> cls, constraints |-> constraints,
   cash_pct |-> cash_pct, returns |-> R, nvars |-> 0,
   Linear |-> <<>>, hasQuadratic |-> FALSE, Quadratic |-> <<>>,
   A |-> <<>>, b |-> <<>>, hasG |-> FALSE, G |-> <<>>, h |-> <<>>]

\* compute_optimal_portfolio, lines 157-163: the model builds its objective
\* and its constraints for the universe
ModuleMatrices ==
  /\ problem.state = "input"
  /\ LET o == compute_objective(problem.cls, problem.returns)
         c == compute_constraints(problem.cls, problem.constraints,
                                  problem.returns, problem.cash_pct)
     IN problem' = [problem EXCEPT !.state = "built", !.op = "module",
                      !.nvars = Len(o.Linear), !.Linear = o.Linear,
                      !.hasQuadratic = o.hasQuadratic, !.Quadratic = o.Quadratic,
                      !.A = c.A_budget, !.b = c.b_budget, !.hasG = c.hasG,
                      !.G = c.G_inequality, !.h = c.h_inequality]
  /\ UNCHANGED <<univ, model, solves, last, ptf, objective, frames, heap>>

\* the package objective of the model's kind is evaluated: LinearMAD(returns)(),
\* LinearCVaR(returns)(), or the covariance and the zero q of the package
\* MeanVariance.solve (optimization_problem.py lines 71-74)
PackageObjective ==
  /\ problem.state = "input"
  /\ LET R == problem.returns
         lin == CASE problem.cls = "MeanVariance" -> Zeros(num_columns(R))
                  [] problem.cls = "MeanMAD" -> LinearMAD__call__(R)
                  [] problem.cls = "MeanCVaR" -> LinearCVaR__call__(R)
     IN problem' = [problem EXCEPT !.state = "built", !.op = "package_objective",
                      !.nvars = Len(lin), !.Linear = lin,
                      !.hasQuadratic = (problem.cls = "MeanVariance"),
                      !.Quadratic = IF problem.cls = "MeanVariance"
                                    THEN TwiceCovOfFrame(R) ELSE <<>>]
  /\ UNCHANGED <<univ, model, solves, last, ptf, objective, frames, heap>>

\* the package constraints are evaluated for the frame's assets and aux
\* auxiliary variables: Budget()(n, aux) and NoShortSelling()(n, aux)
PackageConstraints(aux) ==
  /\ problem.state = "input"
  /\ LET n == num_columns(problem.returns)
         e == Budget__call__(n, aux)
         i == NoShortSelling__call__(n, aux)
     IN problem' = [problem EXCEPT !.state = "built", !.op = "package_constraints",
                      !.nvars = n + aux,
                      !.A = e.A, !.b = e.b, !.hasG = TRUE, !.G = i.G, !.h = i.h]
  /\ UNCHANGED <<univ, model, solves, last, ptf, objective, frames, heap>>

InitMatrices ==
  /\ univ = NoUniverse
  /\ model = NoModel
  /\ solves = <<>>
  /\ last = NoLast
  /\ ptf = NoPortfolio
  /\ objective = NoObjective
  /\ \E cls \in ModelClasses, constraints \in ConstraintsInputs,
        R \in ReturnsFrames, cash_pct \in CashPctInputs :
       problem = ProblemInput(cls, constraints, R, cash_pct)
  /\ frames = NoFrames
  /\ heap = NoHeap

NextMatrices ==
  \/ ModuleMatrices
  \/ PackageObjective
  \/ \E aux \in AuxiliaryInputs : PackageConstraints(aux)

SpecMatrices == InitMatrices /\ [][NextMatrices]_vars

----------------------------------------------------------------------------
(* Prices and returns of a universe                                        *)
(* quantfin/market/investment_universe.py, lines 178-302                   *)

\* a missing value, and a cell holding the value v
NaN == <<>>

IsNaN(c) == c = <<>>

\* the closing prices a download can deliver, missing values included
PriceVals == {1, 2}

Cells == {NaN} \cup {<<v>> : v \in PriceVals}

\* the price frames over the tickers S with L rows; a frame has its columns
\* in order, index rows, and a cell per row and column
PriceFrames(S, L) ==
  {[columns |-> cols, index |-> L, cell |-> d] :
     cols \in Orderings(S), d \in [1..L -> [S -> Cells]]}

\* DataFrame.empty: no column or no row
IsEmpty(F) == Len(F.columns) = 0 \/ F.index = 0

\* the cell of column c at row t after a forward fill
RECURSIVE FFill(_, _, _)
FFill(F, t, c) ==
  IF ~IsNaN(F.cell[t][c]) \/ t = 1 THEN F.cell[t][c] ELSE FFill(F, t - 1, c)

\* cur / prev - 1 in units of 1/2, exact for the prices 1 and 2
PctOf(prev, cur) == (2 * (cur - prev)) \div prev

\* DataFrame.pct_change(): the default fill_method pads missing prices
\* forward ("pad") in pandas before 3.0 and leaves them ("None") from 3.0
pct_change(F, fill) ==
  LET q(t, c) == IF fill = "pad" THEN FFill(F, t, c) ELSE F.cell[t][c]
  IN [F EXCEPT !.cell =
        [t \in 1..F.index |-> [c \in Range(F.columns) |->
           IF t = 1 \/ IsNaN(q(t, c)) \/ IsNaN(q(t - 1, c)) THEN NaN
           ELSE <<PctOf(q(t - 1, c)[1], q(t, c)[1])>>]]]

\* .iloc[1:, :]
iloc_from_1(F) ==
  IF F.index = 0 THEN F
  ELSE [F EXCEPT !.index = F.index - 1,
                 !.cell = [t \in 1..(F.index - 1) |-> F.cell[t + 1]]]

\* the number of non-missing observations of column c
NonMissing(F, c) == Cardinality({t \in 1..F.index : ~IsNaN(F.cell[t][c])})

\* DataFrame.dropna(axis=1, thresh=thresh): keep the columns with at least
\* thresh non-missing values
dropna_columns(F, thresh) ==
  LET keep(c) == NonMissing(F, c) >= thresh
      kept == SelectSeq(F.columns, keep)
  IN [columns |-> kept, index |-> F.index,
      cell |-> [t \in 1..F.index |-> [c \in Range(kept) |-> F.cell[t][c]]]]

\* DataFrame.fillna(0.0)
fillna_zero(F) ==
  [F EXCEPT !.cell = [t \in 1..F.index |-> [c \in Range(F.columns) |->
                        IF IsNaN(F.cell[t][c]) THEN <<0>> ELSE F.cell[t][c]]]]

\* required_pct_obs in percent; the default is 0.7
PctObsInputs == {50, 70, 100}

\* int(len(returns) * required_pct_obs), line 292
Thresh(len, required_pct_obs) == (len * required_pct_obs) \div 100

\* lines 290-293: the returns computed from a price frame
compute_returns(prices, required_pct_obs, fill) ==
  LET returns == iloc_from_1(pct_change(prices, fill))
  IN fillna_zero(dropna_columns(returns, Thresh(returns.index, required_pct_obs)))

\* a downloaded price frame has one more row than the returns have
PriceRows == NumObs + 1

\* class PriceType (lines 25-31), and a price_type outside it
PriceTypeList == {"Open", "High", "Low", "Close"}

PriceTypeInputs == {"Close", "Volume"}

\* InvestmentUniverse.get_bars (lines 178-241) for empty _bars: yf.download
\* of self.tickers, which reads the tickers first; downloaded is the closing
\* prices of the bars delivered, net counts the pages read and the downloads.
\* A download of no ticker raises in yfinance.
get_bars(u, f, fetched, downloaded) ==
  IF ~IsEmpty(f.bars)
  THEN [outcome |-> "ok", msg |-> "", univ |-> u, frames |-> f, net |-> 0]
  ELSE LET t == get_tickers(u, fetched)
           u1 == [u EXCEPT !.tickers = t.tickers]
       IN IF t.outcome # "ok"
          THEN [outcome |-> t.outcome, msg |-> t.msg, univ |-> u, frames |-> f, net |-> t.net]
          ELSE IF t.tickers.set = {}
          THEN [outcome |-> "DownloadError", msg |-> "", univ |-> u1, frames |-> f,
                net |-> t.net]
          ELSE [outcome |-> "ok", msg |-> "", univ |-> u1,
                frames |-> [f EXCEPT !.bars = downloaded], net |-> t.net + 1]

\* InvestmentUniverse.get_prices (lines 251-271); the prices are the
\* price_type level of the bars
get_prices(u, f, price_type, kwargs, fetched, downloaded) ==
  IF ~IsEmpty(f.prices)
  THEN [outcome |-> "ok", msg |-> "", univ |-> u, frames |-> f, net |-> 0]
  ELSE IF price_type \notin PriceTypeList
  THEN [outcome |-> "AssertionError", msg |-> "Provide a valid price_type.",
        univ |-> u, frames |-> f, net |-> 0]
  ELSE LET b == IF IsEmpty(f.bars) \/ kwargs
                THEN get_bars(u, f, fetched, downloaded)
                ELSE [outcome |-> "ok", msg |-> "", univ |-> u, frames |-> f, net |-> 0]
       IN IF b.outcome # "ok" THEN b
          ELSE [b EXCEPT !.frames = [b.frames EXCEPT !.prices = b.frames.bars]]

\* InvestmentUniverse.get_returns (lines 281-294); result is the frame
\* returned to the caller
get_returns(u, f, required_pct_obs, price_type, kwargs, fill, fetched, downloaded) ==
  IF ~IsEmpty(f.returns)
  THEN [outcome |-> "ok", msg |-> "", univ |-> u, frames |-> f, net |-> 0,
        result |-> f.returns]
  ELSE LET p == get_prices(u, f, price_type, kwargs, fetched, downloaded)
       IN IF p.outcome # "ok"
          THEN [outcome |-> p.outcome, msg |-> p.msg, univ |-> p.univ, frames |-> p.frames,
                net |-> p.net, result |-> EmptyFrame]
          ELSE LET r == compute_returns(p.frames.prices, required_pct_obs, fill)
               IN [outcome |-> "ok", msg |-> "", univ |-> p.univ,
                   frames |-> [p.frames EXCEPT !.returns = r],
                   net |-> p.net, result |-> r]

\* whether a read of returns in this state downloads prices
Downloads(u, f, price_type, fetched) ==
  /\ IsEmpty(f.returns) /\ IsEmpty(f.prices) /\ IsEmpty(f.bars)
  /\ price_type \in PriceTypeList
  /\ get_tickers(u, fetched).outcome = "ok"
  /\ get_tickers(u, fetched).tickers.set # {}

\* a caller reads univ.get_returns(required_pct_obs, price_type, **kwargs);
\* the download, when there is one, delivers the prices of the tickers
GetReturns(required_pct_obs, price_type, kwargs, fill, fetched, downloaded) ==
  /\ univ.exists
  /\ IF Downloads(univ, frames, price_type, fetched)
     THEN /\ downloaded # EmptyFrame
          /\ Range(downloaded.columns) = get_tickers(univ, fetched).tickers.set
     ELSE downloaded = EmptyFrame
  /\ LET r == get_returns(univ, frames, required_pct_obs, price_type, kwargs, fill,
                          fetched, downloaded)
     IN /\ univ' = [r.univ EXCEPT !.retcols = r.frames.returns.columns]
        /\ frames' = r.frames
        /\ last' = [op |-> "get_returns", outcome |-> r.outcome, msg |-> r.msg,
                    arg |-> "None", arg2 |-> "None", net |-> r.net, result |-> r.result,
                    computed |-> IsEmpty(frames.returns),
                    required_pct_obs |-> required_pct_obs, fill |-> fill]
  /\ UNCHANGED <<model, solves, ptf, objective, problem, heap>>

\* a caller assigns univ.prices = prices, a non-empty DataFrame (lines 273-277)
SetPrices(prices) ==
  /\ univ.exists
  /\ ~IsEmpty(prices)
  /\ frames' = [frames EXCEPT !.prices = prices]
  /\ last' = [op |-> "set_prices", outcome |-> "ok", msg |-> "",
              arg |-> "None", arg2 |-> "None", net |-> 0]
  /\ UNCHANGED <<univ, model, solves, ptf, objective, problem, heap>>

\* a caller assigns univ.returns = returns, a non-empty DataFrame holding
\* data (lines 296-300)
SetReturns(returns) ==
  /\ univ.exists
  /\ ~IsEmpty(returns)
  /\ frames' = [frames EXCEPT !.returns = returns]
  /\ univ' = [univ EXCEPT !.retcols = returns.columns]
  /\ last' = [op |-> "set_returns", outcome |-> "ok", msg |-> "",
              arg |-> "None", arg2 |-> "None", net |-> 0]
  /\ UNCHANGED <<model, solves, ptf, objective, problem, heap>>

\* a caller reads univ.tickers
ReadTickers(fetched) ==
  /\ univ.exists
  /\ LET t == get_tickers(univ, fetched)
     IN /\ univ' = [univ EXCEPT !.tickers = t.tickers]
        /\ last' = [op |-> "tickers", outcome |-> t.outcome, msg |-> t.msg,
                    arg |-> "None", arg2 |-> "None", net |-> t.net,
                    result |-> t.tickers.set]
  /\ UNCHANGED <<model, solves, ptf, objective, problem, frames, heap>>

\* a caller reads univ.assets; an asset is held by its ticker
ReadAssets(fetched, fetched2) ==
  /\ univ.exists
  /\ LET a == get_assets(univ, fetched, fetched2)
     IN /\ univ' = a.univ
        /\ last' = [op |-> "assets", outcome |-> a.outcome, msg |-> a.msg,
                    arg |-> "None", arg2 |-> "None", net |-> a.net,
                    result |-> a.assets]
  /\ UNCHANGED <<model, solves, ptf, objective, problem, frames, heap>>

\* the collections of Asset objects a caller assigns, each asset held by
\* its ticker
AssetsInputs == (SUBSET Tickers) \ {{}}

\* InvestmentUniverse.set_assets (lines 169-174); all_assets tells whether
\* every member is an Asset
set_assets(u, assets, all_assets) ==
  IF ~all_assets
  THEN [outcome |-> "AssertionError", univ |-> u]
  ELSE [outcome |-> "ok", univ |-> [u EXCEPT !.assets = [none |-> FALSE, set |-> assets]]]

\* a caller assigns univ.assets = assets
SetAssets(assets, all_assets) ==
  /\ univ.exists
  /\ LET r == set_assets(univ, assets, all_assets)
     IN /\ univ' = r.univ
        /\ last' = [op |-> "set_assets", outcome |-> r.outcome, arg |-> "None",
                    arg2 |-> "None", net |-> 0, assigned |-> assets]
  /\ UNCHANGED <<model, solves, ptf, objective, problem, frames, heap>>

\* a caller constructs InvestmentUniverse(reference_index=..., tickers=...,
\* assets=assets): lines 94-97 keep set(assets)
UniverseNewAssets(reference_index, tickers, assets) ==
  /\ ~univ.exists
  /\ LET r == InvestmentUniverse__init__("None", reference_index, tickers, "None")
     IN /\ univ' = IF r.outcome = "ok"
                   THEN [r.univ EXCEPT !.assets = [none |-> FALSE, set |-> assets]]
                   ELSE r.univ
        /\ last' = [op |-> "InvestmentUniverse", outcome |-> r.outcome,
                    arg |-> "None", arg2 |-> reference_index, net |-> 0,
                    assigned |-> assets]
  /\ UNCHANGED <<model, solves, ptf, objective, problem, frames, heap>>

----------------------------------------------------------------------------
(* quantfin/portfolio_selection/risk_parity.py                             *)

\* the leaf orders quasi_diagonalization can return for n columns: column
\* positions from 0
LeafOrders(n) == Orderings(0..(n - 1))

\* len(i) / 2 (line 70) is a true division: a float, also for an even length
HalfIsInt == FALSE

\* HierarchicalRiskParity.compute_optimal_portfolio (lines 82-87) with
\* recursive_bisection (lines 61-80), for returns of n columns: the linkage
\* of tree_clustering needs two observations; for more than two columns
\* quasi_diagonalization calls Series.append, which pandas 2 has not; the
\* bisection slices with the float halves, which a list refuses; were there
\* a single item, no cluster would be formed and its weight would stay 1,
\* keyed by its position.
HRP_compute_optimal_portfolio(n, pandas2, order) ==
  IF n < 2 THEN [outcome |-> "ValueError", holdings |-> EmptyMap]
  ELSE IF n > 2 /\ pandas2 THEN [outcome |-> "AttributeError", holdings |-> EmptyMap]
  ELSE IF Len(order) > 1 /\ ~HalfIsInt THEN [outcome |-> "TypeError", holdings |-> EmptyMap]
  ELSE OptimalPortfolio__init__([k \in {ToString(order[i]) : i \in 1..Len(order)} |-> One])

\* a caller evaluates HierarchicalRiskParity(univ).compute_optimal_portfolio()
\* on a universe whose returns are there
HierarchicalRiskParity(pandas2, order) ==
  /\ univ.exists
  /\ ~IsEmpty(frames.returns)
  /\ order \in LeafOrders(Len(frames.returns.columns))
  /\ LET r == HRP_compute_optimal_portfolio(Len(frames.returns.columns), pandas2, order)
     IN last' = [op |-> "hrp", outcome |-> r.outcome, msg |-> "",
                 arg |-> "None", arg2 |-> "None", net |-> 0, holdings |-> r.holdings]
  /\ UNCHANGED <<univ, model, solves, ptf, objective, problem, frames, heap>>

----------------------------------------------------------------------------
(* Universes built from arguments, and their specifications                *)

\* the characters of a ticker string: what set() makes of a str
Characters(s) ==
  CASE s = "AAPL" -> {"A", "P", "L"}
    [] s = "GOOG" -> {"G", "O"}

\* the tickers arguments a caller supplies: a string, a list or a set
TickersArgs ==
  {[kind |-> "str", str |-> s] : s \in Tickers}
    \cup {[kind |-> "list", items |-> l] :
            l \in {<<>>, <<"AAPL">>, <<"AAPL", "GOOG">>, <<"AAPL", "AAPL">>}}
    \cup {[kind |-> "set", items |-> S] : S \in (SUBSET Tickers) \ {{}}}

\* set(tickers), line 91
PySet(arg) ==
  CASE arg.kind = "str" -> Characters(arg.str)
    [] arg.kind = "list" -> Range(arg.items)
    [] arg.kind = "set" -> arg.items

\* the distinct tickers a caller supplied
Supplied(arg) ==
  CASE arg.kind = "str" -> {arg.str}
    [] arg.kind = "list" -> Range(arg.items)
    [] arg.kind = "set" -> arg.items

\* a caller constructs InvestmentUniverse(tickers=arg)
UniverseNewTickers(arg) ==
  /\ ~univ.exists
  /\ LET r == InvestmentUniverse__init__("None", "None",
                                         [none |-> FALSE, set |-> PySet(arg)], "None")
     IN /\ univ' = r.univ
        /\ last' = [op |-> "InvestmentUniverse", outcome |-> r.outcome, msg |-> "",
                    arg |-> "None", arg2 |-> "None", net |-> 0, supplied |-> arg]
  /\ UNCHANGED <<model, solves, ptf, objective, problem, frames, heap>>

\* price frames of the tickers S in which a ticker is listed from the first
\* or from the second row on, the last price being 2; the columns are in
\* one order
ListedPrices(S) ==
  {[columns |-> CHOOSE cols \in Orderings(S) : TRUE, index |-> PriceRows,
    cell |-> [t \in 1..PriceRows |-> [c \in S |->
                IF t = 1 /\ c \in late THEN NaN
                ELSE IF t = PriceRows THEN <<2>> ELSE <<1>>]]] :
     late \in SUBSET S}

\* what the download of a read of returns can deliver in the current state
Deliverable(price_type, fetched) ==
  IF Downloads(univ, frames, price_type, fetched)
  THEN ListedPrices(get_tickers(univ, fetched).tickers.set)
  ELSE {EmptyFrame}

\* what an index page can deliver when a read needs it
Fetchable == IF univ.tickers.none THEN FetchedTickers ELSE {{}}

\* the frames a caller injects
InjectedFrames == ListedPrices({"AAPL"}) \cup ListedPrices(Tickers)

InitUniverse ==
  /\ univ = NoUniverse
  /\ model = NoModel
  /\ solves = <<>>
  /\ last = NoLast
  /\ ptf = NoPortfolio
  /\ objective = NoObjective
  /\ problem = NoProblem
  /\ frames = NoFrames
  /\ heap = NoHeap

NextUniverse ==
  \/ \E reference_index \in {"None", "S&P 500", "FTSE100"}, returns \in FrameInputs :
       UniverseNew("None", reference_index, [none |-> TRUE, set |-> {}], returns)
  \/ \E arg \in TickersArgs : UniverseNewTickers(arg)
  \/ \E fetched \in Fetchable : ReadTickers(fetched)
  \/ \E fetched \in Fetchable, fetched2 \in FetchedTickers : ReadAssets(fetched, fetched2)
  \/ \E prices \in InjectedFrames : SetPrices(prices)
  \/ \E returns \in InjectedFrames : SetReturns(returns)
  \/ \E required_pct_obs \in PctObsInputs, price_type \in PriceTypeInputs,
        kwargs \in BOOLEAN, fill \in {"pad", "None"}, fetched \in Fetchable :
       \E downloaded \in Deliverable(price_type, fetched) :
         GetReturns(required_pct_obs, price_type, kwargs, fill, fetched, downloaded)
  \/ \E pandas2 \in BOOLEAN, order \in LeafOrders(Len(frames.returns.columns)) :
       HierarchicalRiskParity(pandas2, order)

SpecUniverse == InitUniverse /\ [][NextUniverse]_vars

\* universes that are given assets, and the reads of their tickers and assets
NextAssigned ==
  \/ \E reference_index \in ReferenceIndexInputs, tickers \in TickersInputs :
       UniverseNew("None", reference_index, tickers, "None")
  \/ \E reference_index \in {"None", "S&P 500"}, tickers \in TickersInputs,
        assets \in AssetsInputs :
       UniverseNewAssets(reference_index, tickers, assets)
  \/ \E assets \in AssetsInputs, all_assets \in BOOLEAN : SetAssets(assets, all_assets)
  \/ \E fetched \in FetchedTickers : ReadTickers(fetched)
  \/ \E fetched \in FetchedTickers, fetched2 \in FetchedTickers : ReadAssets(fetched, fetched2)

SpecAssigned == InitUniverse /\ [][NextAssigned]_vars

\* a universe built from the tickers S whose assets have been read
UniverseOf(S) ==
  get_assets(InvestmentUniverse__init__("None", "None", [none |-> FALSE, set |-> S],
                                        "None").univ, {}, {}).univ

\* a universe built from tickers, its assets read and the prices of its
\* tickers assigned, before its returns are read
InitReturns ==
  /\ model = NoModel
  /\ solves = <<>>
  /\ last = NoLast
  /\ ptf = NoPortfolio
  /\ objective = NoObjective
  /\ problem = NoProblem
  /\ \E S \in (SUBSET Tickers) \ {{}} :
       /\ univ = UniverseOf(S)
       /\ \E prices \in PriceFrames(S, PriceRows) :
            frames = [NoFrames EXCEPT !.prices = prices]
  /\ heap = NoHeap

NextReturns ==
  \E required_pct_obs \in PctObsInputs, fill \in {"pad", "None"} :
    GetReturns(required_pct_obs, "Close", FALSE, fill, {}, EmptyFrame)

SpecReturns == InitReturns /\ [][NextReturns]_vars

----------------------------------------------------------------------------

InitPortfolio ==
  /\ univ = NoUniverse
  /\ model = NoModel
  /\ solves = <<>>
  /\ last = NoLast
  /\ \E holdings \in HoldingsInputs :
       ptf = [state |-> "input", input |-> holdings, outcome |-> "none", holdings |-> EmptyMap]
  /\ objective = NoObjective
  /\ problem = NoProblem
  /\ frames = NoFrames
  /\ heap = NoHeap

NextPortfolio == PortfolioNew

SpecPortfolio == InitPortfolio /\ [][NextPortfolio]_vars

Init ==
  /\ univ = NoUniverse
  /\ model = NoModel
  /\ solves = <<>>
  /\ last = NoLast
  /\ ptf = NoPortfolio
  /\ objective = NoObjective
  /\ problem = NoProblem
  /\ frames = NoFrames
  /\ heap = NoHeap

Next ==
  \/ \E name \in NameInputs, reference_index \in ReferenceIndexInputs,
        tickers \in TickersInputs, returns \in FrameInputs :
       UniverseNew(name, reference_index, tickers, returns)
  \/ \E name \in NameInputs \cup VALID_UNIVERSE_NAMES : SourceUniverseNew(name)
  \/ \E cols \in OrderedSubsets(Tickers) : set_returns(cols)
  \/ \E cls \in ModelClasses, constraints \in ConstraintsInputs : ModelNew(cls, constraints)
  \/ \E c \in ConstraintArgs : ModelAddConstraint(c)
  \/ Solve
  \/ PackageSolve

Spec == Init /\ [][Next]_vars

----------------------------------------------------------------------------
(* Claims about Portfolio construction (SpecPortfolio)                     *)

PortfolioBuilt == ptf.state = "attempted" /\ ptf.outcome = "ok"

ResidualCash(total) == IF Abs(One - total) < Tol THEN 0 ELSE One - total

----------------------------------------------------------------------------
(* Claims about solve() and universe construction (Spec)                   *)

Solved(e) == e.outcome = "ok"

AssetKeys(e) == DOMAIN e.holdings \ {Cash}

\* the position of ticker k among the columns of the returns matrix
ColumnOf(cols, k) == CHOOSE i \in DOMAIN cols : cols[i] = k

C4_NonOptimalRaises ==
  \A i \in DOMAIN solves :
    solves[i].status = "unknown"
      => (/\ solves[i].outcome = "InfeasibleOrUnboundedError"
          /\ solves[i].holdings = EmptyMap)

HeldAt(e, p) == e.holdings[e.order[p]]

Paired(e) == 1..Min(Len(e.order), Len(e.x))

SupportedIndices == {"S&P 500", "NASDAQ 100"}

\* the universe names the source.market universe supports
SupportedNames == {"SP500", "NASDAQ100"}

----------------------------------------------------------------------------
(* Claims about the Variance objective (SpecObjective)                     *)

\* C10: when the covariance of the supplied returns is not positive
\* semidefinite, building the Variance objective fails with InvalidObjective
\* and returns no objective matrix.
C10_NonPSDRejected ==
  (objective.state = "built" /\ ~IsPositiveSemidefinite(objective.cov))
    => (objective.outcome = "InvalidObjective" /\ objective.Quadratic = NoMatrix)

----------------------------------------------------------------------------
(* Claims about the objective and constraint matrices (SpecMatrices)       *)

ObjectiveBuilt == problem.state = "built" /\ problem.op \in {"module", "package_objective"}

ConstraintsBuilt == problem.state = "built" /\ problem.op \in {"module", "package_constraints"}

IsSquare(M, k) == Len(M) = k /\ \A i \in 1..Len(M) : Len(M[i]) = k

\* C11: for a returns frame of n columns and T rows the Variance objective is
\* a Quadratic matrix of shape n x n with a Linear vector of length n, the
\* MAD objective a Linear vector of length n + T and the CVaR objective a
\* Linear vector of length n + T + 1.
C11_ObjectiveDimensions ==
  ObjectiveBuilt =>
    LET n == num_columns(problem.returns)
        T == num_obs_returns(problem.returns)
    IN /\ problem.cls = "MeanVariance" =>
            problem.hasQuadratic /\ IsSquare(problem.Quadratic, n) /\ Len(problem.Linear) = n
       /\ problem.cls = "MeanMAD" => Len(problem.Linear) = n + T
       /\ problem.cls = "MeanCVaR" => Len(problem.Linear) = n + T + 1

\* the cash percentage of the budget: package constraints take none
BudgetCashPct == IF problem.op = "module" THEN problem.cash_pct ELSE 0

\* C12: the constraints hold one budget equality row, as wide as the
\* variable vector, with coefficient 1 on the n asset columns and 0 on every
\* auxiliary column, and right-hand side 1 - cash_pct.
C12_BudgetRow ==
  ConstraintsBuilt =>
    LET n == num_columns(problem.returns)
    IN /\ Len(problem.A) = 1
       /\ Len(problem.A[1]) = problem.nvars
       /\ \A j \in 1..Len(problem.A[1]) : problem.A[1][j] = (IF j <= n THEN 1 ELSE 0)
       /\ problem.b = <<One - BudgetCashPct>>

\* NO_SHORTSELLING is asked for: in the model's constraint set, or by calling
\* the package constraint
NoShortsellingAsked ==
  \/ problem.op = "package_constraints"
  \/ problem.op = "module" /\ ~problem.constraints.none
       /\ "NO_SHORTSELLING" \in problem.constraints.set

\* C13: with NO_SHORTSELLING the inequality block holds, for each asset, the
\* row that is -1 on that asset's column and 0 on every other column of the
\* variable vector, auxiliary columns included, with right-hand side 0.
C13_NoShortRows ==
  (ConstraintsBuilt /\ NoShortsellingAsked) =>
    LET n == num_columns(problem.returns)
    IN /\ problem.hasG
       /\ Len(problem.h) = Len(problem.G)
       /\ \A i \in 1..n : \E k \in 1..Len(problem.G) :
            /\ problem.G[k] = EyeRow(problem.nvars, i, 0 - 1)
            /\ problem.h[k] = 0

\* row k of the inequality block is coefficient row `row` with right-hand side 0
IsRow(k, row) == problem.G[k] = row /\ problem.h[k] = 0

\* C14: for the MAD model and each observation row t the inequality block
\* has exactly three rows on the auxiliary variable d_t, all with right-hand
\* side 0: (r_t - mean).w - d_t <= 0, -(r_t - mean).w - d_t <= 0 and
\* -d_t <= 0, none of them touching another auxiliary column (the first two
\* are held multiplied by T).
C14_MADRows ==
  (problem.state = "built" /\ problem.op = "module" /\ problem.cls = "MeanMAD") =>
    LET R == problem.returns
        n == num_columns(R)
        T == num_obs_returns(R)
    IN /\ problem.hasG
       /\ Len(problem.h) = Len(problem.G)
       /\ \A t \in 1..T :
            LET on_d == {k \in 1..Len(problem.G) : problem.G[k][n + t] # 0}
            IN /\ Cardinality(on_d) = 3
               /\ \E k1, k2, k3 \in on_d :
                    /\ Cardinality({k1, k2, k3}) = 3
                    /\ IsRow(k1, DeviationRow(R, t) \o EyeRow(T, t, 0 - T))
                    /\ IsRow(k2, Scaled(0 - 1, DeviationRow(R, t)) \o EyeRow(T, t, 0 - T))
                    /\ IsRow(k3, Zeros(n) \o EyeRow(T, t, 0 - 1))

\* C15: the MAD and CVaR objectives carry a Quadratic term over the whole
\* extended variable vector, a positive multiple of the identity, so that
\* the models are solved as quadratic programs.
C15_RidgeQuadratic ==
  (problem.state = "built" /\ problem.op = "module"
     /\ problem.cls \in {"MeanMAD", "MeanCVaR"}) =>
    /\ problem.hasQuadratic
    /\ IsSquare(problem.Quadratic, Len(problem.Linear))
    /\ \A i, j \in 1..Len(problem.Quadratic) :
         IF i = j THEN problem.Quadratic[i][j] = problem.Quadratic[1][1]
                       /\ problem.Quadratic[i][j] > 0
         ELSE problem.Quadratic[i][j] = 0

----------------------------------------------------------------------------
(* Claims about the returns of a universe (SpecUniverse, SpecReturns)      *)

\* a step that reads returns while the universe holds a non-empty returns
\* frame returns that frame, changes no frame and downloads nothing
ReadIsCached ==
  (univ.exists /\ ~IsEmpty(frames.returns) /\ last'.op = "get_returns") =>
    /\ last'.outcome = "ok"
    /\ last'.result = frames.returns
    /\ frames' = frames
    /\ last'.net = 0

\* the constructor takes a returns frame: of its arguments only a DataFrame
\* can make it raise ValueError
ConstructorTakesReturns == last.op = "InvestmentUniverse" => last.outcome # "ValueError"

\* C16: once a universe holds a non-empty returns frame, computed on first
\* access or injected by the constructor or the setter, every later read of
\* returns yields that frame and downloads nothing, whatever the arguments.
C16_ReturnsCached == [][ReadIsCached]_vars /\ []ConstructorTakesReturns

\* the returns before columns are dropped and gaps filled, for the read
\* recorded in last
RawReturns == iloc_from_1(pct_change(frames.prices, last.fill))

ReturnsComputed == last.op = "get_returns" /\ last.outcome = "ok" /\ last.computed

\* the columns whose share of non-missing observations reaches the threshold
CompleteColumns(raw, required_pct_obs) ==
  {c \in Range(raw.columns) : NonMissing(raw, c) * 100 >= raw.index * required_pct_obs}

\* the computed returns keep exactly the complete columns and hold the raw
\* returns with 0 in the gaps
KeepsCompleteColumns ==
  ReturnsComputed =>
    /\ Range(last.result.columns) = CompleteColumns(RawReturns, last.required_pct_obs)
    /\ last.result.index = RawReturns.index
    /\ \A t \in 1..last.result.index, c \in Range(last.result.columns) :
         last.result.cell[t][c] =
           (IF IsNaN(RawReturns.cell[t][c]) THEN <<0>> ELSE RawReturns.cell[t][c])

\* a read of returns leaves the asset set as it was
AssetsUntouched == last'.op = "get_returns" => univ'.assets = univ.assets

\* C17: the returns computed by get_returns keep exactly the columns whose
\* share of non-missing observations reaches the completeness threshold,
\* hold no missing value (the gaps are 0), and the asset set of the universe
\* is unchanged, dropped assets included.
C17_CompleteColumnsKept == []KeepsCompleteColumns /\ [][AssetsUntouched]_vars

\* the columns kept are those with at least int(len * threshold)
\* non-missing observations
ThreshColumns(raw, required_pct_obs) ==
  {c \in Range(raw.columns) : NonMissing(raw, c) >= Thresh(raw.index, required_pct_obs)}

\* a universe built with no argument exists
NoArgumentUniverse ==
  (last.op = "InvestmentUniverse" /\ last.arg = "None" /\ last.arg2 = "None"
     /\ last.outcome # "ValueError") => (last.outcome = "ok" /\ univ.exists)

\* reading tickers or assets of a universe without tickers and without a
\* reference index raises the assertion and reads no page
ReadNeedsReferenceIndex ==
  (univ.exists /\ univ.tickers.none /\ Falsy(univ.reference_index)
     /\ last'.op \in {"tickers", "assets"}) =>
    /\ last'.outcome = "AssertionError"
    /\ last'.msg = ReferenceIndexFirst
    /\ last'.net = 0
    /\ univ' = univ

\* C18: an InvestmentUniverse can be constructed with no argument; reading
\* its assets or tickers while it has neither tickers nor a reference index
\* fails with the assertion error "You must provide a reference_index
\* first!" without network access.
C18_EmptyUniverseAsserts == []NoArgumentUniverse /\ [][ReadNeedsReferenceIndex]_vars

\* the universe has no tickers and no reference index, and the read of its
\* assets has raised the assertion without reading a page
C18_Witness ==
  /\ univ.exists /\ univ.tickers.none /\ Falsy(univ.reference_index)
  /\ last.op = "assets" /\ last.outcome = "AssertionError"
  /\ last.msg = ReferenceIndexFirst /\ last.net = 0

\* the read that follows the construction from supplied tickers
ReadAfterSupply ==
  /\ last.op = "InvestmentUniverse" /\ last.outcome = "ok"
  /\ "supplied" \in DOMAIN last
  /\ Supplied(last.supplied) # {}
  /\ last'.op \in {"tickers", "assets"}

\* C19: for a universe built from user-supplied tickers (a string, a set or
\* a list) tickers and assets are sets with as many members as distinct
\* tickers were supplied, one asset per supplied ticker.
C19_OneAssetPerTicker ==
  [][ReadAfterSupply =>
       /\ last'.outcome = "ok"
       /\ Cardinality(last'.result) = Cardinality(Supplied(last.supplied))
       /\ last'.result = Supplied(last.supplied)]_vars

\* C20: the portfolio HierarchicalRiskParity.compute_optimal_portfolio
\* produces for a universe has holdings keyed by the assets of the returns
\* and weights that sum to 1.
C20_HRPPortfolioInvariants ==
  last.op = "hrp" =>
    /\ last.outcome = "ok"
    /\ DOMAIN last.holdings \subseteq Range(frames.returns.columns) \cup {Cash}
    /\ Abs(SumValues(last.holdings) - One) < Tol

----------------------------------------------------------------------------
(* Claims about the returned portfolio's provenance (Spec)                 *)

\* the solver has reported status optimal to compute_optimal_portfolio
ReportedOptimal(i) ==
  solves[i].variant = "model" /\ solves[i].status = "optimal"

----------------------------------------------------------------------------
(* quantfin/market/assets.py: equality and hashing of Asset and Cash       *)

MaxObjects == 3

Currencies == {"EUR", "USD"}

\* Stock(ticker=t) (lines 134-159, Asset.__init__ lines 21-69)
Stock__init__(t) == [cls |-> "Stock", ticker |-> t]

\* Cash(currency=c) (lines 14-18)
Cash__init__(c) == [cls |-> "Cash", currency |-> c]

\* a == b for the objects at positions i and j.  class Asset defines no
\* __eq__ (lines 21-69), so object.__eq__ compares identities; the dataclass
\* Cash (line 14) gets an __eq__ that compares the fields.
py_eq(objects, i, j) ==
  IF objects[i].cls = "Cash" /\ objects[j].cls = "Cash"
  THEN objects[i].currency = objects[j].currency
  ELSE i = j

\* hash(a) for the object at position i.  class Asset defines no __hash__,
\* so the hash is that of the identity; @dataclasses.dataclass with eq and
\* without frozen sets __hash__ to None, so hash(Cash()) raises TypeError.
py_hash(objects, i) ==
  IF objects[i].cls = "Cash"
  THEN [outcome |-> "TypeError", value |-> 0]
  ELSE [outcome |-> "ok", value |-> i]

\* the member of the hashed collection keys that the object at i is found
\* as: one with the same hash that equals it
FoundAs(objects, keys, i) ==
  {j \in keys : py_hash(objects, j).value = py_hash(objects, i).value
                  /\ py_eq(objects, j, i)}

\* s.add(a) on a Python set of objects
set_add(objects, keys, i) ==
  IF py_hash(objects, i).outcome # "ok"
  THEN [outcome |-> py_hash(objects, i).outcome, keys |-> keys]
  ELSE IF FoundAs(objects, keys, i) # {}
  THEN [outcome |-> "ok", keys |-> keys]
  ELSE [outcome |-> "ok", keys |-> keys \cup {i}]

\* d[a] = w on a Python dict keyed by objects, as a sequence of entries in
\* insertion order
dict_setitem(objects, d, i, w) ==
  LET keys == {d[k].key : k \in DOMAIN d}
      found == FoundAs(objects, keys, i)
  IN IF py_hash(objects, i).outcome # "ok"
     THEN [outcome |-> py_hash(objects, i).outcome, dict |-> d]
     ELSE IF found # {}
     THEN [outcome |-> "ok",
           dict |-> [k \in DOMAIN d |->
                       IF d[k].key \in found THEN [key |-> d[k].key, weight |-> w] ELSE d[k]]]
     ELSE [outcome |-> "ok", dict |-> Append(d, [key |-> i, weight |-> w])]

\* a caller makes a Stock
NewStock(t) ==
  /\ Len(heap.objects) < MaxObjects
  /\ heap' = [heap EXCEPT !.objects = Append(@, Stock__init__(t))]
  /\ last' = [op |-> "Stock", outcome |-> "ok", arg |-> t, arg2 |-> "None", net |-> 0]
  /\ UNCHANGED <<univ, model, solves, ptf, objective, problem, frames>>

\* a caller makes a Cash
NewCash(c) ==
  /\ Len(heap.objects) < MaxObjects
  /\ heap' = [heap EXCEPT !.objects = Append(@, Cash__init__(c))]
  /\ last' = [op |-> "Cash", outcome |-> "ok", arg |-> c, arg2 |-> "None", net |-> 0]
  /\ UNCHANGED <<univ, model, solves, ptf, objective, problem, frames>>

\* a caller adds the object at i to its asset set
AssetSetAdd(i) ==
  /\ i \in DOMAIN heap.objects
  /\ LET r == set_add(heap.objects, heap.assets, i)
     IN /\ heap' = [heap EXCEPT !.assets = r.keys]
        /\ last' = [op |-> "set.add", outcome |-> r.outcome, arg |-> "None",
                    arg2 |-> "None", net |-> 0, obj |-> i]
  /\ UNCHANGED <<univ, model, solves, ptf, objective, problem, frames>>

\* a caller gives the object at i the weight w in its holdings dict
HoldingsSetItem(i, w) ==
  /\ i \in DOMAIN heap.objects
  /\ LET r == dict_setitem(heap.objects, heap.holdings, i, w)
     IN /\ heap' = [heap EXCEPT !.holdings = r.dict]
        /\ last' = [op |-> "dict.setitem", outcome |-> r.outcome, arg |-> "None",
                    arg2 |-> "None", net |-> 0, obj |-> i]
  /\ UNCHANGED <<univ, model, solves, ptf, objective, problem, frames>>

InitAssets ==
  /\ univ = NoUniverse
  /\ model = NoModel
  /\ solves = <<>>
  /\ last = NoLast
  /\ ptf = NoPortfolio
  /\ objective = NoObjective
  /\ problem = NoProblem
  /\ frames = NoFrames
  /\ heap = NoHeap

NextAssets ==
  \/ \E t \in Tickers : NewStock(t)
  \/ \E c \in Currencies : NewCash(c)
  \/ \E i \in 1..MaxObjects : AssetSetAdd(i)
  \/ \E i \in 1..MaxObjects : HoldingsSetItem(i, One \div MaxObjects)

SpecAssets == InitAssets /\ [][NextAssets]_vars

----------------------------------------------------------------------------
(* Claims about Asset and Cash as keys (SpecAssets)                        *)

\* two objects the claim calls the same: two Assets with the same ticker,
\* or two Cash values with the same currency
SameKey(i, j) ==
  LET a == heap.objects[i]
      b == heap.objects[j]
  IN IF a.cls = "Cash" \/ b.cls = "Cash"
     THEN a.cls = b.cls /\ a.currency = b.currency
     ELSE a.ticker = b.ticker

EqualAndHashAlike(i, j) ==
  /\ py_eq(heap.objects, i, j)
  /\ py_hash(heap.objects, i).outcome = "ok"
  /\ py_hash(heap.objects, j).outcome = "ok"
  /\ py_hash(heap.objects, i).value = py_hash(heap.objects, j).value

HoldingsKeys == {heap.holdings[k].key : k \in DOMAIN heap.holdings}

\* C22: two Assets with the same ticker are equal and hash alike, and two
\* Cash values with the same currency are equal and hash alike, so a
\* holdings map or an asset set holds at most one entry per ticker and one
\* Cash entry per currency.
C22_OneEntryPerKey ==
  /\ \A i, j \in DOMAIN heap.objects : SameKey(i, j) => EqualAndHashAlike(i, j)
  /\ \A i, j \in heap.assets : SameKey(i, j) => i = j
  /\ \A i, j \in HoldingsKeys : SameKey(i, j) => i = j

----------------------------------------------------------------------------
(* OptimizationModel: the constraint set of each instance                  *)

MaxModels == 2

\* self.constraints of the model at position i: None, or the set object
\* the attribute refers to
ConstraintsOf(h, i) ==
  IF h.models[i].constraints = 0
  THEN [none |-> TRUE, set |-> {}]
  ELSE [none |-> FALSE, set |-> h.sets[h.models[i].constraints]]

\* the attribute of model i after a method has left it with the value
\* constraints: a set that exists is changed in place (lines 64, 79), the
\* set of line 63 is a new object
StoreConstraints(h, i, constraints) ==
  IF constraints.none
  THEN h
  ELSE IF h.models[i].constraints = 0
  THEN [h EXCEPT !.sets = Append(@, constraints.set),
                 !.models[i].constraints = Len(h.sets) + 1]
  ELSE [h EXCEPT !.sets[h.models[i].constraints] = constraints.set]

\* a caller builds a set to pass as the constraints argument
NewConstraintSet(C) ==
  /\ heap.models = <<>>
  /\ Len(heap.sets) < MaxModels
  /\ heap' = [heap EXCEPT !.sets = Append(@, C)]
  /\ last' = [op |-> "set", outcome |-> "ok", arg |-> "None", arg2 |-> "None", net |-> 0]
  /\ UNCHANGED <<univ, model, solves, ptf, objective, problem, frames>>

\* a caller constructs a model with constraints=<the set object ref>, or
\* with the default None (ref = 0); __init__ (lines 42-51) keeps the
\* argument itself as self.constraints
OptimizationModelNew(ref) ==
  /\ Len(heap.models) < MaxModels
  /\ ref \in 0..Len(heap.sets)
  /\ IF ref # 0 /\ \E c \in heap.sets[ref] : ~IsConstraint(c)
     THEN /\ last' = [op |-> "OptimizationModel", outcome |-> "ValueError",
                      arg |-> "None", arg2 |-> "None", net |-> 0]
          /\ UNCHANGED heap
     ELSE /\ heap' = [heap EXCEPT !.models = Append(@, [constraints |-> ref])]
          /\ last' = [op |-> "OptimizationModel", outcome |-> "ok",
                      arg |-> "None", arg2 |-> "None", net |-> 0]
  /\ UNCHANGED <<univ, model, solves, ptf, objective, problem, frames>>

\* a caller runs models[i].add_constraint(c)
AddConstraint(i, c) ==
  /\ i \in DOMAIN heap.models
  /\ LET r == add_constraint(ConstraintsOf(heap, i), c)
     IN /\ heap' = IF r.outcome = "ok" THEN StoreConstraints(heap, i, r.constraints) ELSE heap
        /\ last' = [op |-> "add_constraint", outcome |-> r.outcome, arg |-> c,
                    arg2 |-> "None", net |-> 0, self |-> i]
  /\ UNCHANGED <<univ, model, solves, ptf, objective, problem, frames>>

\* a caller runs models[i].del_constraint(c)
DelConstraint(i, c) ==
  /\ i \in DOMAIN heap.models
  /\ LET r == del_constraint(ConstraintsOf(heap, i), c)
     IN /\ heap' = IF r.outcome = "ok" THEN StoreConstraints(heap, i, r.constraints) ELSE heap
        /\ last' = [op |-> "del_constraint", outcome |-> r.outcome, arg |-> c,
                    arg2 |-> "None", net |-> 0, self |-> i]
  /\ UNCHANGED <<univ, model, solves, ptf, objective, problem, frames>>

InitConstraints == InitAssets

NextConstraints ==
  \/ \E C \in ConstraintSetArgs : NewConstraintSet(C)
  \/ \E ref \in 0..MaxModels : OptimizationModelNew(ref)
  \/ \E i \in 1..MaxModels, c \in ConstraintArgs : AddConstraint(i, c)
  \/ \E i \in 1..MaxModels, c \in ConstraintArgs : DelConstraint(i, c)

SpecConstraints == InitConstraints /\ [][NextConstraints]_vars

----------------------------------------------------------------------------
(* Claims about constraint sets (SpecConstraints)                          *)

\* a call of add_constraint or del_constraint on one model
ConstraintCall == last'.op \in {"add_constraint", "del_constraint"}

\* C23: each OptimizationModel instance has its own constraint set: a call
\* of add_constraint or del_constraint on one model leaves the constraint
\* set of every other model unchanged, also for models constructed from the
\* same constraints argument or with the default.
C23_OwnConstraintSet ==
  [][ConstraintCall =>
       \A j \in DOMAIN heap.models :
         j # last'.self => ConstraintsOf(heap', j) = ConstraintsOf(heap, j)]_vars

\* every member of every model's constraint set is a Constraint
OnlyConstraintMembers ==
  \A i \in DOMAIN heap.models : ConstraintsOf(heap, i).set \subseteq Constraint

\* the call that has just run fails by the claim's account: the argument is
\* no Constraint, or a del_constraint finds the set unset, empty or without
\* its argument
CallMustFail ==
  \/ ~IsConstraint(last'.arg)
  \/ /\ last'.op = "del_constraint"
     /\ last'.arg \notin ConstraintsOf(heap, last'.self).set

\* what the call that has just run leaves as the set of its model
SetAfterCall ==
  LET before == ConstraintsOf(heap, last'.self).set
  IN IF CallMustFail THEN before
     ELSE IF last'.op = "add_constraint" THEN before \cup {last'.arg}
     ELSE before \ {last'.arg}

\* C28: after each add_constraint or del_constraint call on a model its
\* constraint set holds exactly the Constraint members added and not
\* deleted; a call that fails (an argument that is no Constraint, deleting
\* an absent constraint, deleting from an empty or unset set) signals an
\* error and leaves the constraint set unchanged.
C28_ConstraintSetFollowsCalls ==
  /\ []OnlyConstraintMembers
  /\ [][ConstraintCall =>
          /\ (last'.outcome # "ok") = CallMustFail
          /\ ConstraintsOf(heap', last'.self).set = SetAfterCall
          /\ CallMustFail => ConstraintsOf(heap', last'.self) = ConstraintsOf(heap, last'.self)
          /\ ~CallMustFail => ~ConstraintsOf(heap', last'.self).none]_vars

\* a model whose set has come to hold MAX_INSTR_WEIGHT alone has refused to
\* delete the absent NO_SHORTSELLING
C28_Witness ==
  /\ last.op = "del_constraint" /\ last.outcome = "AssertionError"
  /\ last.arg = "NO_SHORTSELLING"
  /\ ConstraintsOf(heap, last.self) = [none |-> FALSE, set |-> {"MAX_INSTR_WEIGHT"}]

----------------------------------------------------------------------------
(* Claims about solving with NO_SHORTSELLING (Spec)                        *)

\* solve() has returned a portfolio for a model that has NO_SHORTSELLING,
\* from its constructor or from add_constraint
SolvedNoShortselling(i) ==
  /\ solves[i].variant = "model"
  /\ solves[i].outcome = "ok"
  /\ HasNoShortselling(solves[i].input.constraints)

----------------------------------------------------------------------------
(* Claims about the blocks handed to the solver (SpecMatrices)             *)

\* _compute_constraints of the module has built the blocks of a model
ModuleBuilt == problem.state = "built" /\ problem.op = "module"

\* the rows of the inequality block that bear on an auxiliary variable
AuxiliaryRows ==
  LET n == num_columns(problem.returns)
  IN {k \in 1..Len(problem.G) : \E j \in (n + 1)..Len(problem.G[k]) : problem.G[k][j] # 0}

\* C25: for MeanMAD and MeanCVaR the inequality block handed to the solver
\* holds the model's auxiliary rows, 3T rows for MAD and 2T rows for CVaR,
\* for every constraint set: None, empty, with NO_SHORTSELLING, and
\* non-empty without NO_SHORTSELLING.
C25_AuxiliaryRowsAlways ==
  (ModuleBuilt /\ problem.cls \in {"MeanMAD", "MeanCVaR"}) =>
    LET T == num_obs_returns(problem.returns)
    IN /\ problem.hasG
       /\ Cardinality(AuxiliaryRows) = (IF problem.cls = "MeanMAD" THEN 3 * T ELSE 2 * T)

\* C27: for every model and every constraint set the blocks handed to the
\* solver are dimensionally consistent: G_inequality has as many rows as
\* h_inequality has entries, and G_inequality and A_budget each have as
\* many columns as the Linear objective has entries.
C27_BlocksConformable ==
  ModuleBuilt =>
    /\ \A k \in 1..Len(problem.A) : Len(problem.A[k]) = Len(problem.Linear)
    /\ problem.hasG =>
         /\ Len(problem.G) = Len(problem.h)
         /\ \A k \in 1..Len(problem.G) : Len(problem.G[k]) = Len(problem.Linear)

\* the blocks of a CVaR model with NO_SHORTSELLING on the largest frame: 2T
\* auxiliary rows and n no-short rows, n + T + 1 columns
C27_Witness ==
  /\ ModuleBuilt /\ problem.cls = "MeanCVaR" /\ problem.hasG
  /\ HasNoShortselling(problem.constraints)
  /\ num_obs_returns(problem.returns) = NumObs
  /\ num_columns(problem.returns) = Cardinality(Tickers)
  /\ Len(problem.G) = 2 * NumObs + Cardinality(Tickers)
  /\ Len(problem.Linear) = Cardinality(Tickers) + NumObs + 1

----------------------------------------------------------------------------
(* Claims about the solver invocation (Spec)                               *)

\* compute_optimal_portfolio has run on a model of the module
Computed(i) == solves[i].variant = "model"

\* the failures for want of an inequality block: the lookup of the missing
\* "G_inequality" entry, and lp() called without G and h
LacksInequalityBlock(i) == solves[i].outcome \in {"KeyError", "TypeError"}

\* C26: for every model and every constraint set compute_optimal_portfolio
\* invokes the solver exactly once, with the blocks _compute_constraints
\* built; a MeanVariance model without NO_SHORTSELLING is solved with the
\* budget equality alone and does not fail for lack of an inequality block.
C26_SolverInvokedOnce ==
  \A i \in DOMAIN solves :
    Computed(i) => (solves[i].calls = 1 /\ ~LacksInequalityBlock(i))

----------------------------------------------------------------------------
(* quantfin/portfolio_selection/portfolio.py: the cash property            *)

\* the keys of self.holdings in dict order after Portfolio.__init__ (lines
\* 28-32) on a dict whose keys were inserted in the order `order`: the
\* default {Cash: 1.0} for an empty dict, and a synthesized Cash put last
KeysAfterInit(order) ==
  IF order = <<>> THEN <<Cash>>
  ELSE IF Cash \in Range(order) THEN order
  ELSE Append(order, Cash)

\* Portfolio.cash (lines 63-71): the loop runs over all keys and each turn
\* overwrites cash, so the last key decides; the weight of the returned
\* one-entry dict
Portfolio_cash(order, holdings) ==
  LET asset == order[Len(order)]
  IN IF asset = Cash THEN holdings[asset] ELSE 0

\* a caller constructs Portfolio(holdings=ptf.input), the dict ptf.input
\* having its keys in the order ptf.order
PortfolioFromDict ==
  /\ ptf.state = "dict"
  /\ LET r == Portfolio__init__(ptf.input)
     IN ptf' = [state |-> "attempted", input |-> ptf.input,
                outcome |-> r.outcome, holdings |-> r.holdings,
                order |-> IF r.outcome = "ok" THEN KeysAfterInit(ptf.order) ELSE <<>>]
  /\ last' = [op |-> "Portfolio", outcome |-> Portfolio__init__(ptf.input).outcome,
              arg |-> "None", arg2 |-> "None", net |-> 0]
  /\ UNCHANGED <<univ, model, solves, objective, problem, frames, heap>>

\* a caller reads portfolio.cash
ReadCash ==
  /\ ptf.state = "attempted" /\ ptf.outcome = "ok"
  /\ last.op # "cash"
  /\ last' = [op |-> "cash", outcome |-> "ok", arg |-> "None", arg2 |-> "None",
              net |-> 0, result |-> Portfolio_cash(ptf.order, ptf.holdings)]
  /\ UNCHANGED <<univ, model, solves, ptf, objective, problem, frames, heap>>

InitCash ==
  /\ univ = NoUniverse
  /\ model = NoModel
  /\ solves = <<>>
  /\ last = NoLast
  /\ \E holdings \in HoldingsInputs :
       \E order \in Orderings(DOMAIN holdings) :
         ptf = [state |-> "dict", input |-> holdings, outcome |-> "none",
                holdings |-> EmptyMap, order |-> order]
  /\ objective = NoObjective
  /\ problem = NoProblem
  /\ frames = NoFrames
  /\ heap = NoHeap

NextCash == PortfolioFromDict \/ ReadCash

SpecCash == InitCash /\ [][NextCash]_vars

----------------------------------------------------------------------------
(* Claims about the cash property (SpecCash)                               *)

----------------------------------------------------------------------------
(* Claims about assigned assets (SpecAssigned)                             *)

\* the read of assets that follows the assignment of a valid collection of
\* assets, by set_assets or by the constructor
ReadAfterAssign ==
  /\ last.op \in {"set_assets", "InvestmentUniverse"}
  /\ last.outcome = "ok"
  /\ "assigned" \in DOMAIN last
  /\ last'.op = "assets"

\* C30: after a valid collection A of Asset objects is assigned to a
\* universe (set_assets, or the assets constructor argument), reading assets
\* returns A, whether or not the universe has tickers or a reference index
\* as well, and without network access.
C30_AssignedAssetsRead ==
  [][ReadAfterAssign =>
       /\ last'.outcome = "ok"
       /\ last'.result = last.assigned
       /\ last'.net = 0]_vars

====
